---- MODULE Spec2Model ----
(***************************************************************************)
(* The two Blender viewer scripts of the repository as one state machine:  *)
(*   import_meshes_to_blender.py  (script = "mesh")                        *)
(*   view_ply.py                  (script = "ply")                         *)
(* The host application (bpy) is the environment: its operators are        *)
(* modelled by their effect on the scene, and the things the scripts       *)
(* cannot know (does a file exist, does an importer raise, how many        *)
(* objects of which type does it create, how is the screen laid out) are   *)
(* nondeterministic choices.                                               *)
(***************************************************************************)
EXTENDS Integers, Sequences, FiniteSets, TLC

\* ------------------------------------------------------------- bounds
\* Longest configured MESH_FILES list.
MaxFiles == 2
\* Most objects one host import call creates.
MaxNew == 2
\* Most objects in the scene after the scene was cleared.
MaxObjs == 2
\* Most objects in the scene the script is started in.
MaxStart == 2

\* ---------------------------------------------------------- constants
\* y_offset = i * 3.0
LayoutSpacing == 3

\* ------------------------------------------------------ text helpers
\* Strings are sequences of one-character strings, so that suffix(),
\* stem and lower() are computed and not assumed.
UpperLetters ==
  <<"A","B","C","D","E","F","G","H","I","J","K","L","M",
    "N","O","P","Q","R","S","T","U","V","W","X","Y","Z">>

LowerLetters ==
  <<"a","b","c","d","e","f","g","h","i","j","k","l","m",
    "n","o","p","q","r","s","t","u","v","w","x","y","z">>

LowerChar(c) ==
  IF \E k \in 1..Len(UpperLetters) : UpperLetters[k] = c
  THEN LowerLetters[CHOOSE k \in 1..Len(UpperLetters) : UpperLetters[k] = c]
  ELSE c

\* A buggy lower(): the identity (a case-sensitive comparison).
LowerNoFold(s) == s

\* str.lower()
Lower(s) == [k \in 1..Len(s) |-> LowerChar(s[k])]

\* str.rfind(c), 1-based; 0 when c does not occur.
RFind(s, c) ==
  IF \E k \in 1..Len(s) : s[k] = c
  THEN CHOOSE k \in 1..Len(s) : s[k] = c /\ \A j \in (k+1)..Len(s) : s[j] # c
  ELSE 0

\* pathlib's PurePath.suffix of a file name: from the last dot on, unless
\* the dot is the first or the last character.
Suffix(name) ==
  LET d == RFind(name, ".")
  IN  IF 1 < d /\ d < Len(name) THEN SubSeq(name, d, Len(name)) ELSE <<>>

\* pathlib's PurePath.stem.
Stem(name) ==
  LET d == RFind(name, ".")
  IN  IF 1 < d /\ d < Len(name) THEN SubSeq(name, 1, d - 1) ELSE name

Range(s) == {s[k] : k \in 1..Len(s)}

SetMax(S) == IF S = {} THEN 0 ELSE CHOOSE m \in S : \A x \in S : x <= m

\* ------------------------------------------------------ configuration
\* File names a MESH_FILES entry is drawn from: the three supported
\* extensions in different letter cases, and an unsupported one.
FileNames ==
  { <<"a", ".", "F", "b", "x">>,
    <<"b", ".", "G", "L", "B">>,
    <<"c", ".", "g", "l", "t", "f">>,
    <<"d", ".", "o", "b", "j">> }

RECURSIVE DistinctSeqs(_)
\* The lists of distinct file names of length at most n.
DistinctSeqs(n) ==
  IF n = 0 THEN {<<>>}
  ELSE LET prev == DistinctSeqs(n - 1)
       IN  prev \cup { Append(s, f) :
                         <<s, f>> \in { p \in prev \X FileNames :
                                          Len(p[1]) = n - 1 /\ p[2] \notin Range(p[1]) } }

FileLists == DistinctSeqs(MaxFiles)

\* PLY_FILE's name.
PlyName == <<"g", "s", "_", "v", "i", "s", ".", "p", "l", "y">>

\* ------------------------------------------------------------- host
\* What an importer makes of one object: its type, and whether its name
\* contains "icosphere" (the bone joint markers the FBX importer adds).
Kinds == <<"MESH", "ARMATURE", "EMPTY", "ICOSPHERE">>

\* The kinds of object an importer creates.
KindsOf(imp) == IF imp = "fbx" THEN 1..4 ELSE 1..3

KindType(k) == IF Kinds[k] = "ICOSPHERE" THEN "MESH" ELSE Kinds[k]

RECURSIVE KindSeqs(_, _)
\* The non-decreasing sequences of kinds of K of length at most n: the order
\* in which a call creates its objects is not observable.
KindSeqs(n, K) ==
  IF n = 0 THEN {<<>>}
  ELSE LET prev == KindSeqs(n - 1, K)
       IN  prev \cup { Append(s, k) :
                         <<s, k>> \in { p \in prev \X K :
                                          /\ Len(p[1]) = n - 1
                                          /\ (Len(p[1]) > 0 => p[1][Len(p[1])] <= p[2]) } }

\* The scene's master collection; every other collection has a positive id.
Master == 0

\* Where an importer leaves an object before the script moves it.
ImportedLocation == <<1, 1, 1>>

\* bpy.context.screen.areas: each area has a type and its regions' types.
AreaLayouts ==
  { << [type |-> "OUTLINER", regions |-> <<"WINDOW">>] >>,
    << [type |-> "OUTLINER", regions |-> <<"WINDOW">>],
       [type |-> "VIEW_3D", regions |-> <<"HEADER", "WINDOW", "WINDOW">>],
       [type |-> "VIEW_3D", regions |-> <<"WINDOW">>] >>,
    << [type |-> "VIEW_3D", regions |-> <<"HEADER">>],
       [type |-> "VIEW_3D", regions |-> <<"WINDOW">>] >> }

VARIABLES
  script,       \* which script runs: "mesh" | "ply"
  pc,           \* the position in main()
  MESH_FILES,   \* the configured list of file names
  i,            \* files of MESH_FILES processed so far
  objects,      \* bpy.data.objects: id -> [type, ico, data, loc, colls, hidden, front]
  data,         \* bpy.data.meshes/materials/armatures: id -> [kind, mats, display]
  colls,        \* bpy.data.collections: id -> name
  children,     \* scene.collection.children
  active,       \* the collection importers link new objects to
  collections,  \* the dict create_collection_for_each_file returns: file -> collection id
  areas,        \* bpy.context.screen.areas
  shaded,       \* indexes of the areas setup_viewport configured
  viewAll,      \* the <<area, region>> indexes view3d.view_all ran on, in order
  out,          \* the lines printed so far
  hist,         \* per processed file: what the iteration did
  start,        \* view_ply: the scene main() was started in (not kept for the mesh script)
  frame         \* what the camera-framing block did

vars ==
  << script, pc, MESH_FILES, i, objects, data, colls, children, active,
     collections, areas, shaded, viewAll, out, hist, start, frame >>

\* ------------------------------------------------------ starting scene
\* An object as an importer (or the startup file) leaves it: linked to the
\* collection `coll`, with data block `d` (0: none, an empty has no data).
NewObject(k, d, coll) ==
  [ type   |-> KindType(k),
    ico    |-> Kinds[k] = "ICOSPHERE",
    data   |-> IF KindType(k) = "EMPTY" THEN 0 ELSE d,
    loc    |-> ImportedLocation,
    colls  |-> {coll},
    hidden |-> FALSE,
    front  |-> FALSE ]

\* The data block an object of kind k comes with.
NewBlock(k, mats) ==
  [ kind    |-> KindType(k),
    mats    |-> IF KindType(k) = "MESH" THEN mats ELSE {},
    display |-> "OCTAHEDRAL" ]

\* The starting scene with objects of kinds ks, all linked to `coll`. mat
\* says whether a material exists: "none", or "used" (by every mesh of the
\* scene, by nothing if there is none).
StartObjects(ks, coll) == [k \in 1..Len(ks) |-> NewObject(ks[k], k, coll)]

StartData(ks, mat) ==
  LET withData == {k \in 1..Len(ks) : KindType(ks[k]) # "EMPTY"}
      m        == Len(ks) + 1
      mats     == IF mat = "none" THEN {} ELSE {m}
  IN  [ b \in withData \cup mats |->
          IF b = m
          THEN [kind |-> "MATERIAL", mats |-> {}, display |-> "OCTAHEDRAL"]
          ELSE NewBlock(ks[b], mats) ]

\* -------------------------------------------------------- clear_scene
\* block.users: the objects and meshes that refer to block b of d.
Users(d, objs, b) ==
  Cardinality({o \in DOMAIN objs : objs[o].data = b})
  + Cardinality({m \in DOMAIN d : b \in d[m].mats})

\* for block in bpy.data.<kind>s: if block.users == 0: remove(block)
Purge(d, objs, kind) ==
  LET keep == {b \in DOMAIN d : ~(d[b].kind = kind /\ Users(d, objs, b) = 0)}
  IN  [b \in keep |-> [d[b] EXCEPT !.mats = d[b].mats \cap keep]]

\* The purge loops of import_meshes_to_blender.clear_scene, in their order.
PurgeMeshScript(d, objs) ==
  Purge(Purge(Purge(d, objs, "MESH"), objs, "MATERIAL"), objs, "ARMATURE")

\* The purge loops of view_ply.clear_scene: meshes, then materials.
PurgePlyScript(d, objs) ==
  Purge(Purge(d, objs, "MESH"), objs, "MATERIAL")

\* select_all(action='SELECT') and delete(use_global=False): every object
\* of the scene is deleted; their data blocks stay, with fewer users.
DeleteAll(objs) == << >>

\* for i, filename in enumerate(MESH_FILES): where main() stands once n files
\* are processed.
AfterFile(n) == IF n < Len(MESH_FILES) THEN "import" ELSE "viewport"

\* import_meshes_to_blender.py: clear_scene(), called first by main().
ClearSceneMesh ==
  /\ script = "mesh"
  /\ pc = "clear"
  /\ objects' = DeleteAll(objects)
  /\ data' = PurgeMeshScript(data, DeleteAll(objects))
  /\ pc' = AfterFile(0)
  /\ UNCHANGED << script, MESH_FILES, i, colls, children, active, collections,
                  areas, shaded, viewAll, out, hist, start, frame >>

\* view_ply.py: clear_scene(), called by main() once PLY_FILE was found.
ClearScenePly ==
  /\ script = "ply"
  /\ pc = "clear"
  /\ objects' = DeleteAll(objects)
  /\ data' = PurgePlyScript(data, DeleteAll(objects))
  /\ pc' = "import_ply"
  /\ UNCHANGED << script, MESH_FILES, i, colls, children, active, collections,
                  areas, shaded, viewAll, out, hist, start, frame >>

\* -------------------------------------------------------- import_file
\* What host import operator imp may do when called with n objects in the
\* scene: raise (and leave the scene alone), or create objects of some kinds.
HostOutcomes(imp, n) ==
  {[raised |-> TRUE, kinds |-> << >>]}
  \cup {[raised |-> FALSE, kinds |-> ks] :
          ks \in {k \in KindSeqs(MaxNew, KindsOf(imp)) : n + Len(k) <= MaxObjs}}

Line(m, n) == [msg |-> m, n |-> n]

\* The objects and data blocks of the scene after an importer created
\* objects of kinds ks, linked to the active collection.
HostCreate(objs, d, ks, coll) ==
  LET base == SetMax(DOMAIN d)
  IN  [ objects |-> objs \o [k \in 1..Len(ks) |-> NewObject(ks[k], base + k, coll)],
        data    |-> [b \in DOMAIN d \cup {base + k : k \in {j \in 1..Len(ks) : KindType(ks[j]) # "EMPTY"}} |->
                       IF b \in DOMAIN d THEN d[b] ELSE NewBlock(ks[b - base], {})] ]

\* An if/elif chain whose last branch takes every other extension.
ImporterForElseGltf(filepath) ==
  LET ext == Lower(Suffix(filepath))
  IN  IF ext = <<".", "f", "b", "x">> THEN "fbx" ELSE "gltf"

\* The importer import_file picks for a path: ext = filepath.suffix.lower()
\* and the if/elif chain.
ImporterFor(filepath) ==
  LET ext == Lower(Suffix(filepath))
  IN  IF ext = <<".", "f", "b", "x">> THEN "fbx"
      ELSE IF ext = <<".", "g", "l", "b">> \/ ext = <<".", "g", "l", "t", "f">> THEN "gltf"
      ELSE "none"

\* import_file without its try/except: the importer's exception leaves it.
ImportFileNoCatch(filepath, oc) ==
  LET imp == ImporterFor(filepath)
  IN  [importer |-> imp, fbx |-> IF imp = "fbx" THEN 1 ELSE 0,
       gltf |-> IF imp = "gltf" THEN 1 ELSE 0, raised |-> imp # "none" /\ oc.raised,
       ret |-> imp # "none" /\ ~oc.raised, escaped |-> imp # "none" /\ oc.raised,
       line |-> IF imp = "none" THEN "Unsupported"
                ELSE IF imp = "fbx" THEN "ImportedFBX" ELSE "ImportedGLTF",
       kinds |-> IF imp # "none" /\ ~oc.raised THEN oc.kinds ELSE << >>]

\* import_file(filepath) when the host operator it calls, if any, behaves
\* as oc: the importer called, the return value, the line printed, what was
\* created, and whether an exception leaves the function.
ImportFile(filepath, oc) ==
  LET imp == ImporterFor(filepath)
  IN  IF imp = "none"
      THEN [importer |-> "none", fbx |-> 0, gltf |-> 0, raised |-> FALSE, ret |-> FALSE,
            escaped |-> FALSE, line |-> "Unsupported", kinds |-> << >>]
      ELSE IF oc.raised
      THEN [importer |-> imp, fbx |-> IF imp = "fbx" THEN 1 ELSE 0,
            gltf |-> IF imp = "gltf" THEN 1 ELSE 0, raised |-> TRUE, ret |-> FALSE,
            escaped |-> FALSE, line |-> "ErrorImporting", kinds |-> << >>]
      ELSE [importer |-> imp, fbx |-> IF imp = "fbx" THEN 1 ELSE 0,
            gltf |-> IF imp = "gltf" THEN 1 ELSE 0, raised |-> FALSE, ret |-> TRUE,
            escaped |-> FALSE,
            line |-> IF imp = "fbx" THEN "ImportedFBX" ELSE "ImportedGLTF",
            kinds |-> oc.kinds]

\* ------------------------------------ create_collection_for_each_file
\* Linking without unlinking first.
RelinkNoUnlink(objs, new, cid) ==
  [o \in DOMAIN objs |->
     IF o \in new THEN [objs[o] EXCEPT !.colls = objs[o].colls \cup {cid}] ELSE objs[o]]

\* for coll in obj.users_collection: coll.objects.unlink(obj), then
\* collection.objects.link(obj), for every new object.
Relink(objs, new, cid) ==
  [o \in DOMAIN objs |->
     IF o \in new
     THEN [objs[o] EXCEPT !.colls = (objs[o].colls \ objs[o].colls) \cup {cid}]
     ELSE objs[o]]

\* The three buckets new objects are sorted into.
MeshObjects(objs, new) == {o \in new : objs[o].type = "MESH"}

ArmatureObjects(objs, new) == {o \in new : objs[o].type = "ARMATURE"}

OtherObjects(objs, new) ==
  {o \in new : objs[o].type # "MESH" /\ objs[o].type # "ARMATURE"}

\* The layout without the loop over other_objects.
ArrangeNoOthers(objs, new, y) ==
  LET placed == MeshObjects(objs, new) \cup ArmatureObjects(objs, new)
  IN  [o \in DOMAIN objs |->
         IF o \in placed THEN [objs[o] EXCEPT !.loc = <<0, y, 0>>] ELSE objs[o]]

\* obj.location.x = 0; obj.location.y = y_offset; obj.location.z = 0, for
\* the objects of the three buckets.
Arrange(objs, new, y) ==
  LET placed == MeshObjects(objs, new) \cup ArmatureObjects(objs, new)
                \cup OtherObjects(objs, new)
  IN  [o \in DOMAIN objs |->
         IF o \in placed THEN [objs[o] EXCEPT !.loc = <<0, y, 0>>] ELSE objs[o]]

\* y_offset = i * 3.0, i the file's 0-based index.
YOffset(n) == n * LayoutSpacing

\* One iteration of the loop over MESH_FILES.
ProcessFile ==
  /\ script = "mesh"
  /\ pc = "import"
  /\ i < Len(MESH_FILES)
  /\ LET filename == MESH_FILES[i + 1]
     IN  \E exists \in BOOLEAN :
           IF ~exists
           THEN /\ out' = Append(out, Line("NotFound", i))
                /\ hist' = Append(hist,
                     [file |-> filename, exists |-> FALSE, coll |-> Master,
                      importer |-> "none", fbx |-> 0, gltf |-> 0, raised |-> FALSE,
                      ret |-> FALSE, before |-> DOMAIN objects, after |-> DOMAIN objects,
                      created |-> {}])
                /\ i' = i + 1
                /\ pc' = AfterFile(i + 1)
                /\ UNCHANGED << objects, data, colls, children, collections >>
           ELSE \E oc \in HostOutcomes(ImporterFor(filename), Len(objects)) :
                  LET cid      == SetMax(DOMAIN colls) + 1
                      existing == DOMAIN objects
                      r        == ImportFile(filename, oc)
                      host     == HostCreate(objects, data, r.kinds, active)
                      new      == DOMAIN host.objects \ existing
                  IN  /\ colls' = [c \in DOMAIN colls \cup {cid} |->
                                     IF c = cid THEN Stem(filename) ELSE colls[c]]
                      /\ children' = children \cup {cid}
                      /\ collections' =
                           [f \in DOMAIN collections \cup {filename} |->
                              IF f = filename THEN cid ELSE collections[f]]
                      /\ data' = host.data
                      /\ objects' =
                           IF r.ret
                           THEN Arrange(Relink(host.objects, new, cid), new, YOffset(i))
                           ELSE host.objects
                      /\ out' = Append(out, Line(r.line, i))
                      /\ hist' = Append(hist,
                           [file |-> filename, exists |-> TRUE, coll |-> cid,
                            importer |-> r.importer, fbx |-> r.fbx, gltf |-> r.gltf,
                            raised |-> r.raised, ret |-> r.ret, before |-> existing,
                            after |-> DOMAIN host.objects,
                            created |-> (Len(objects) + 1)..(Len(objects) + Len(r.kinds))])
                      /\ i' = i + 1
                      /\ pc' = IF r.escaped THEN "crashed" ELSE AfterFile(i + 1)
  /\ UNCHANGED << script, MESH_FILES, active, areas, shaded, viewAll, start, frame >>

\* ----------------------------------------------------- setup_viewport
\* The areas setup_viewport configures, with the shading colour it sets
\* (every VIEW_3D area has a VIEW_3D space).
SetupViewport(color) ==
  [a \in {k \in 1..Len(areas) : areas[k].type = "VIEW_3D"} |-> color]

\* import_meshes_to_blender.py: setup_viewport().
SetupViewportMesh ==
  /\ script = "mesh"
  /\ pc = "viewport"
  /\ shaded' = SetupViewport("MATERIAL")
  /\ pc' = "armature"
  /\ UNCHANGED << script, MESH_FILES, i, objects, data, colls, children, active,
                  collections, areas, viewAll, out, hist, start, frame >>

\* view_ply.py: setup_viewport().
SetupViewportPly ==
  /\ script = "ply"
  /\ pc = "viewport"
  /\ shaded' = SetupViewport("VERTEX")
  /\ pc' = "frame"
  /\ UNCHANGED << script, MESH_FILES, i, objects, data, colls, children, active,
                  collections, areas, viewAll, out, hist, start, frame >>

\* setup_armature_display(): armatures are shown as sticks and in front,
\* meshes named like an icosphere are hidden.
SetupArmatureDisplay ==
  /\ script = "mesh"
  /\ pc = "armature"
  /\ objects' =
       [o \in DOMAIN objects |->
          IF objects[o].type = "ARMATURE" THEN [objects[o] EXCEPT !.front = TRUE]
          ELSE IF objects[o].type = "MESH" /\ objects[o].ico
          THEN [objects[o] EXCEPT !.hidden = TRUE]
          ELSE objects[o]]
  /\ data' =
       [b \in DOMAIN data |->
          IF \E o \in DOMAIN objects : objects[o].type = "ARMATURE" /\ objects[o].data = b
          THEN [data[b] EXCEPT !.display = "STICK"]
          ELSE data[b]]
  /\ pc' = "frame"
  /\ UNCHANGED << script, MESH_FILES, i, colls, children, active, collections,
                  areas, shaded, viewAll, out, hist, start, frame >>

\* ------------------------------------------------------ camera framing
\* The first index of s whose element is t; 0 when there is none.
FirstOf(s, t) ==
  IF \E k \in 1..Len(s) : s[k] = t
  THEN CHOOSE k \in 1..Len(s) : s[k] = t /\ \A j \in 1..(k - 1) : s[j] # t
  ELSE 0

RECURSIVE SeqOfSet(_)
SeqOfSet(S) ==
  IF S = {} THEN << >>
  ELSE LET x == CHOOSE y \in S : \A z \in S : y[1] < z[1] \/ (y[1] = z[1] /\ y[2] <= z[2])
       IN  <<x>> \o SeqOfSet(S \ {x})

\* The two loops without their break statements: every WINDOW region of
\* every VIEW_3D area.
FrameTargetsNoBreak(ar) ==
  SeqOfSet({ <<a, r>> \in (1..Len(ar)) \X (1..3) :
               /\ ar[a].type = "VIEW_3D"
               /\ r <= Len(ar[a].regions)
               /\ ar[a].regions[r] = "WINDOW" })

\* The <<area, region>> pairs the two loops call view3d.view_all on: the
\* loop over the areas stops at the first VIEW_3D area, the loop over its
\* regions at the first WINDOW region.
FrameTargets(ar) ==
  LET a == FirstOf([k \in 1..Len(ar) |-> ar[k].type], "VIEW_3D")
      r == IF a = 0 THEN 0 ELSE FirstOf(ar[a].regions, "WINDOW")
  IN  IF a = 0 \/ r = 0 THEN << >> ELSE << <<a, r>> >>

\* The framing block without its try/except.
FrameBlockNoTry(ar, sel, view) ==
  LET targets == FrameTargets(ar)
  IN  IF sel
      THEN [what |-> "select_raised", calls |-> << >>, escaped |-> TRUE, lines |-> << >>]
      ELSE IF targets = << >>
      THEN [what |-> "no_region", calls |-> << >>, escaped |-> FALSE, lines |-> << >>]
      ELSE IF view
      THEN [what |-> "view_raised", calls |-> << targets[1] >>, escaped |-> TRUE,
            lines |-> << >>]
      ELSE [what |-> "ok", calls |-> targets, escaped |-> FALSE, lines |-> << >>]

\* The try block when select_all raises (sel) or not, and view_all raises
\* on its first call (view) or not: what happened, the view_all calls made,
\* the lines the except clause printed, whether the exception left main().
FrameBlock(ar, sel, view) ==
  LET targets == FrameTargets(ar)
  IN  IF sel
      THEN [what |-> "select_raised", calls |-> << >>, escaped |-> FALSE,
            lines |-> << Line("NoteAutoFrame", 0), Line("TipHome", 0) >>]
      ELSE IF targets = << >>
      THEN [what |-> "no_region", calls |-> << >>, escaped |-> FALSE, lines |-> << >>]
      ELSE IF view
      THEN [what |-> "view_raised", calls |-> << targets[1] >>, escaped |-> FALSE,
            lines |-> << Line("NoteAutoFrame", 0), Line("TipHome", 0) >>]
      ELSE [what |-> "ok", calls |-> targets, escaped |-> FALSE, lines |-> << >>]

\* The camera-framing block of main(), the same in both scripts.
FrameAll ==
  /\ pc = "frame"
  /\ \E sel \in BOOLEAN, view \in BOOLEAN :
       LET f == FrameBlock(areas, sel, view)
       IN  /\ frame' = f.what
           /\ viewAll' = viewAll \o f.calls
           /\ out' = out \o f.lines
           /\ pc' = IF f.escaped THEN "crashed" ELSE "summary"
  /\ UNCHANGED << script, MESH_FILES, i, objects, data, colls, children, active,
                  collections, areas, shaded, hist, start >>

\* ------------------------------------------------------------- summary
\* print(f"Successfully imported {len(collections)} file(s)") and the tips.
SummaryMesh ==
  /\ script = "mesh"
  /\ pc = "summary"
  /\ out' = Append(out, Line("Summary", Cardinality(DOMAIN collections)))
  /\ pc' = "done"
  /\ UNCHANGED << script, MESH_FILES, i, objects, data, colls, children, active,
                  collections, areas, shaded, viewAll, hist, start, frame >>

\* print("Successfully imported PLY file") and the tips.
SummaryPly ==
  /\ script = "ply"
  /\ pc = "summary"
  /\ out' = Append(out, Line("SummaryPly", 1))
  /\ pc' = "done"
  /\ UNCHANGED << script, MESH_FILES, i, objects, data, colls, children, active,
                  collections, areas, shaded, viewAll, hist, start, frame >>

\* ---------------------------------------------------------- view_ply
\* main() without the early return.
PlyEntryNoReturn(exists) == "clear"

\* main(): where it goes after PLY_FILE.exists().
PlyEntry(exists) == IF exists THEN "clear" ELSE "done"

\* view_ply.py main(): the check that PLY_FILE exists.
PlyCheckFile ==
  /\ script = "ply"
  /\ pc = "check"
  /\ \E exists \in BOOLEAN :
       /\ pc' = PlyEntry(exists)
       /\ out' = IF exists THEN out ELSE Append(out, Line("NotFound", 0))
       /\ hist' = << [file |-> PlyName, exists |-> exists, coll |-> Master,
                      importer |-> "none", fbx |-> 0, gltf |-> 0, raised |-> FALSE,
                      ret |-> FALSE, before |-> DOMAIN objects, after |-> DOMAIN objects,
                      created |-> {}] >>
  /\ UNCHANGED << script, MESH_FILES, i, objects, data, colls, children, active,
                  collections, areas, shaded, viewAll, start, frame >>

\* import_ply(filepath) and the `if` of main() around its result.
ImportPly ==
  /\ script = "ply"
  /\ pc = "import_ply"
  /\ \E oc \in HostOutcomes("ply", Len(objects)) :
       LET host == HostCreate(objects, data, oc.kinds, active)
       IN  /\ objects' = host.objects
           /\ data' = host.data
           /\ out' = Append(out, Line(IF oc.raised THEN "ErrorImporting" ELSE "ImportedPLY", 0))
           /\ hist' = << [hist[1] EXCEPT
                            !.importer = "ply", !.raised = oc.raised, !.ret = ~oc.raised,
                            !.before = DOMAIN objects, !.after = DOMAIN host.objects,
                            !.created = DOMAIN host.objects \ DOMAIN objects] >>
           /\ pc' = IF oc.raised THEN "done" ELSE "viewport"
  /\ UNCHANGED << script, MESH_FILES, i, colls, children, active, collections,
                  areas, shaded, viewAll, start, frame >>

\* ------------------------------------------------------- specification
\* The scene a script is started in, and its configuration.
Init ==
  /\ script \in {"mesh", "ply"}
  /\ pc = IF script = "mesh" THEN "clear" ELSE "check"
  /\ MESH_FILES \in IF script = "mesh" THEN FileLists ELSE {<< >>}
  /\ i = 0
  /\ colls = [c \in {1} |-> <<"C", "o", "l", "l", "e", "c", "t", "i", "o", "n">>]
  /\ children = {1}
  /\ active = 1
  /\ \E ks \in KindSeqs(MaxStart, 1..3), mat \in {"none", "used"} :
       /\ objects = StartObjects(ks, active)
       /\ data = StartData(ks, mat)
  /\ collections = << >>
  /\ areas \in AreaLayouts
  /\ shaded = << >>
  /\ viewAll = << >>
  /\ out = << >>
  /\ hist = << >>
  /\ start = IF script = "ply" THEN [objects |-> objects, data |-> data]
             ELSE [objects |-> << >>, data |-> << >>]
  /\ frame = "none"

Next ==
  \/ ClearSceneMesh
  \/ ProcessFile
  \/ SetupViewportMesh
  \/ SetupArmatureDisplay
  \/ FrameAll
  \/ SummaryMesh
  \/ PlyCheckFile
  \/ ClearScenePly
  \/ ImportPly
  \/ SetupViewportPly
  \/ SummaryPly

Spec == Init /\ [][Next]_vars

\* ------------------------------------------------------------ properties
\* The objects linked to collection c.
InCollection(c) == {o \in DOMAIN objects : c \in objects[o].colls}

\* The objects that were newly present after the k-th file's import call.
NewlyPresent(k) == hist[k].after \ hist[k].before

\* Two strings are equal up to letter case.
CaseEq(a, b) ==
  /\ Len(a) = Len(b)
  /\ \A k \in 1..Len(a) :
       \/ a[k] = b[k]
       \/ \E j \in 1..Len(UpperLetters) : {a[k], b[k]} = {UpperLetters[j], LowerLetters[j]}

IsFbx(f) == CaseEq(Suffix(f), <<".", "f", "b", "x">>)

IsGltf(f) ==
  \/ CaseEq(Suffix(f), <<".", "g", "l", "b">>)
  \/ CaseEq(Suffix(f), <<".", "g", "l", "t", "f">>)

HasLine(m) == \E k \in 1..Len(out) : out[k].msg = m

FramingFailed == frame \in {"select_raised", "view_raised", "no_region"}

\* C1: in the mesh script, from the end of a file's iteration on, the
\* file's collection holds exactly the objects that were newly present
\* after its import call, each of them is linked to no other collection,
\* and the collections of two different files share no object.
C1_CollectionHoldsExactlyItsImport ==
  script = "mesh" =>
    /\ \A k \in 1..Len(hist) :
         hist[k].exists =>
           /\ InCollection(hist[k].coll) = NewlyPresent(k)
           /\ \A o \in NewlyPresent(k) : objects[o].colls = {hist[k].coll}
    /\ \A k, l \in 1..Len(hist) :
         (k # l /\ hist[k].exists /\ hist[l].exists) =>
           /\ hist[k].coll # hist[l].coll
           /\ InCollection(hist[k].coll) \cap InCollection(hist[l].coll) = {}

C1_Witness ==
  /\ script = "mesh"
  /\ pc = "done"
  /\ Len(hist) = 2
  /\ hist[1].ret /\ NewlyPresent(1) # {}
  /\ hist[2].ret /\ NewlyPresent(2) # {}

C3_UnsupportedExtensionFails ==
  script = "mesh" =>
    \A k \in 1..Len(hist) :
      (hist[k].exists /\ ~IsFbx(hist[k].file) /\ ~IsGltf(hist[k].file)) =>
        /\ hist[k].ret = FALSE
        /\ hist[k].fbx = 0
        /\ hist[k].gltf = 0
        /\ hist[k].after = hist[k].before
        /\ out[k].msg = "Unsupported"

C3_Witness ==
  /\ script = "mesh"
  /\ Len(hist) = 2
  /\ hist[1].ret /\ hist[1].created # {}
  /\ hist[2].exists
  /\ Suffix(hist[2].file) = <<".", "o", "b", "j">>

\* C4: when the host importer raises for a file, import_file returns False
\* and the exception does not leave it; every later file of MESH_FILES is
\* still processed (its importer is called if the file exists and is
\* supported), and main() goes on to its end.
C4_ImportFailureDoesNotAbort ==
  script = "mesh" =>
    \A k \in 1..Len(hist) :
      hist[k].raised =>
        /\ hist[k].ret = FALSE
        /\ out[k].msg = "ErrorImporting"
        /\ pc # "crashed"
        /\ pc # "done" => ENABLED Next
        /\ pc = "done" =>
             /\ Len(hist) = Len(MESH_FILES)
             /\ \A j \in (k + 1)..Len(hist) :
                  /\ hist[j].file = MESH_FILES[j]
                  /\ (hist[j].exists /\ (IsFbx(hist[j].file) \/ IsGltf(hist[j].file)))
                       => hist[j].fbx + hist[j].gltf = 1

C4_Witness ==
  /\ script = "mesh"
  /\ pc = "done"
  /\ Len(hist) = 2
  /\ hist[1].raised
  /\ hist[2].ret /\ hist[2].created # {}

\* C6: when camera framing fails (select_all or view_all raises, or there
\* is no 3D viewport region), main() of either script still runs to its end
\* and prints the final summary, and every imported object is still there.
C6_FramingFailureDoesNotAbort ==
  FramingFailed =>
    /\ pc \in {"summary", "done"}
    /\ pc = "summary" => ENABLED Next
    /\ pc = "done" => out[Len(out)].msg = (IF script = "mesh" THEN "Summary" ELSE "SummaryPly")
    /\ \A k \in 1..Len(hist) :
         /\ hist[k].after \subseteq DOMAIN objects
         /\ (script = "mesh" /\ hist[k].exists) => InCollection(hist[k].coll) = NewlyPresent(k)

C6_Witness ==
  /\ frame = "view_raised"
  /\ pc = "done"
  /\ Len(objects) > 0

\* C8: a configured file that does not exist is skipped before any host
\* operation for it. Mesh script: no collection is created and no importer
\* called for it, and the other files are still processed. PLY script:
\* main() returns before clear_scene, the scene stays as it was.
C8_MissingFileIsSkipped ==
  /\ script = "mesh" =>
       /\ \A k \in 1..Len(hist) :
            ~hist[k].exists =>
              /\ hist[k].file \notin DOMAIN collections
              /\ hist[k].fbx + hist[k].gltf = 0
              /\ hist[k].after = hist[k].before
              /\ out[k].msg = "NotFound"
       /\ Cardinality(DOMAIN colls) = 1 + Cardinality({k \in 1..Len(hist) : hist[k].exists})
       /\ pc = "done" =>
            /\ Len(hist) = Len(MESH_FILES)
            /\ \A k \in 1..Len(hist) : hist[k].file = MESH_FILES[k]
  /\ (script = "ply" /\ Len(hist) = 1 /\ ~hist[1].exists) =>
       /\ pc = "done"
       /\ objects = start.objects
       /\ data = start.data
       /\ out = << Line("NotFound", 0) >>

C8_Witness ==
  /\ script = "mesh"
  /\ pc = "done"
  /\ Len(hist) = 2
  /\ ~hist[1].exists
  /\ hist[2].ret /\ hist[2].created # {}

\* The state right after clear_scene returned.
AfterClearScene ==
  \/ script = "mesh" /\ pc = AfterFile(0) /\ i = 0
  \/ script = "ply" /\ pc = "import_ply"

\* A mesh, material or armature data block with no user.
Orphans == {b \in DOMAIN data : Users(data, objects, b) = 0}

\* C5: after clear_scene returns, in either script, the scene has no object
\* and no mesh, material or armature data block with zero users remains.
C5_ClearSceneLeavesNoOrphan ==
  AfterClearScene => (Len(objects) = 0 /\ Orphans = {})

\* C5 for import_meshes_to_blender.py alone, whose clear_scene purges all
\* three kinds of data block.
C5_MeshScriptLeavesNoOrphan ==
  (script = "mesh" /\ AfterClearScene) => (Len(objects) = 0 /\ Orphans = {})

\* C7 as stated: import_file calls the FBX importer once, and no other, for
\* .fbx and the glTF importer once, and no other, for .glb and .gltf, in any
\* letter case; when the importer does not raise, import_file returns True
\* and the scene has strictly more objects than before.
C7_SuccessAddsObjects ==
  script = "mesh" =>
    \A k \in 1..Len(hist) :
      hist[k].exists =>
        /\ IsFbx(hist[k].file) => (hist[k].fbx = 1 /\ hist[k].gltf = 0)
        /\ IsGltf(hist[k].file) => (hist[k].gltf = 1 /\ hist[k].fbx = 0)
        /\ (hist[k].fbx + hist[k].gltf = 1 /\ ~hist[k].raised) =>
             /\ hist[k].ret
             /\ Cardinality(hist[k].after) > Cardinality(hist[k].before)

\* C7, amended: the same dispatch; when the importer does not raise,
\* import_file returns True and the scene holds the objects it held before
\* plus exactly those the importer created, which may be none.
C7_DispatchByExtension ==
  script = "mesh" =>
    \A k \in 1..Len(hist) :
      hist[k].exists =>
        /\ IsFbx(hist[k].file) => (hist[k].fbx = 1 /\ hist[k].gltf = 0)
        /\ IsGltf(hist[k].file) => (hist[k].gltf = 1 /\ hist[k].fbx = 0)
        /\ (hist[k].fbx + hist[k].gltf = 1 /\ ~hist[k].raised) =>
             /\ hist[k].ret
             /\ out[k].msg = (IF IsFbx(hist[k].file) THEN "ImportedFBX" ELSE "ImportedGLTF")
             /\ hist[k].after = hist[k].before \cup hist[k].created
             /\ hist[k].before \cap hist[k].created = {}
             /\ Cardinality(hist[k].after) >= Cardinality(hist[k].before)

C7_Witness ==
  /\ script = "mesh"
  /\ Len(hist) = 2
  /\ Suffix(hist[1].file) = <<".", "G", "L", "B">>
  /\ hist[1].ret /\ hist[1].created # {}
  /\ Suffix(hist[2].file) = <<".", "F", "b", "x">>
  /\ hist[2].ret /\ hist[2].created = {}

\* The first WINDOW region of the first VIEW_3D area, if there is one.
FirstViewport ==
  LET threeD == {a \in 1..Len(areas) : areas[a].type = "VIEW_3D"}
      a      == SetMax({x \in threeD : \A y \in threeD : x <= y})
      wins   == IF a = 0 THEN {}
                ELSE {r \in 1..Len(areas[a].regions) : areas[a].regions[r] = "WINDOW"}
      r      == SetMax({x \in wins : \A y \in wins : x <= y})
  IN  IF a = 0 \/ r = 0 THEN << >> ELSE << <<a, r>> >>

\* C9 as stated: if no suitable viewport region is found or view_all
\* fails, the note and the tip are printed and the script continues;
\* view_all is called at most once, on the first 3D viewport region.
C9_FramingFailureIsLogged ==
  /\ frame \in {"no_region", "view_raised"} =>
       /\ HasLine("NoteAutoFrame") /\ HasLine("TipHome")
       /\ pc \in {"summary", "done"}
  /\ Len(viewAll) <= 1
  /\ viewAll # << >> => viewAll = FirstViewport

\* C9, amended: the note and the tip are printed exactly when select_all
\* or view_all raises; when no suitable viewport region is found nothing is
\* printed and view_all is not called; the script continues in every case;
\* view_all is called at most once, on the first WINDOW region of the first
\* VIEW_3D area.
C9_OnlyExceptionsAreLogged ==
  /\ frame # "none" =>
       /\ (HasLine("NoteAutoFrame") /\ HasLine("TipHome"))
            <=> frame \in {"select_raised", "view_raised"}
       /\ HasLine("NoteAutoFrame") <=> HasLine("TipHome")
       /\ frame = "no_region" => (viewAll = << >> /\ FirstViewport = << >>)
       /\ frame \in {"ok", "view_raised"} => viewAll # << >>
       /\ pc \in {"summary", "done"}
       /\ pc = "summary" => ENABLED Next
  /\ frame = "none" => (viewAll = << >> /\ ~HasLine("NoteAutoFrame") /\ ~HasLine("TipHome"))
  /\ Len(viewAll) <= 1
  /\ viewAll # << >> => viewAll = FirstViewport

C9_Witness ==
  /\ frame = "no_region"
  /\ pc = "done"
  /\ \E a \in 1..Len(areas) : areas[a].type = "VIEW_3D"

\* C10: the number the mesh script prints in "Successfully imported N
\* file(s)" is the number of files import_file returned True for, and the
\* scene has a per-file collection only for those files.
C10_SummaryCountsSuccessfulImports ==
  (script = "mesh" /\ pc = "done") =>
    /\ out[Len(out)] = Line("Summary", Cardinality({k \in 1..Len(hist) : hist[k].ret}))
    /\ \A k \in 1..Len(hist) : hist[k].file \in DOMAIN collections => hist[k].ret

====
